---- MODULE Spec2Model ----
(***************************************************************************)
(* The neighborhood service: houses, the trees planted at them, and the    *)
(* storm transaction that fells one tree of a house.                       *)
(*                                                                         *)
(* The relational store is modelled as the committed tables (houses,       *)
(* trees, the AUTO_INCREMENT counter) plus, for every open transaction,    *)
(* the row it has locked and the change it has pending.  Every HTTP        *)
(* handler is a sequence of steps, one per call into the store; between    *)
(* two steps of one request any step of another request may happen.        *)
(* Every call into the store may also fail (a driver or connection error). *)
(***************************************************************************)
EXTENDS Integers, Sequences, FiniteSets, TLC

\* ------------------------------------------------------------------ bounds
\* Houses present in the house table (no registered route adds one).
NumHouses == 2
\* Largest identifier AUTO_INCREMENT hands out in the model.
MaxTreeID == 2
\* Requests that can be in flight at the same time.
NumReqs == 2
\* Connections the listener serves at the same time while the process
\* starts and stops.
NumConns == 1
\* The tree rows the tables hold when the service starts over tables that
\* earlier requests filled.
NumPlanted == 3

\* ------------------------------------------------------- program constants
\* handler.go:153,157: coordinates above 255 are rejected.
MaxCoord == 255
\* handler.go:251: strconv.ParseInt(paramStr, 10, 32).
MaxInt32 == 2147483647

Reqs == 1..NumReqs
HouseIDs == 1..NumHouses
TreeIDRange == 1..MaxTreeID
\* The identifiers a path parameter may name: one lies beyond every house.
ParamRange == 1..(IF MaxTreeID > NumHouses THEN MaxTreeID ELSE NumHouses + 1)

\* ------------------------------------------------------------ path params
Digits == <<"0", "1", "2", "3", "4", "5", "6", "7", "8", "9">>

IsDigit(c) == \E i \in 1..Len(Digits) : Digits[i] = c

DigitVal(c) == (CHOOSE i \in 1..Len(Digits) : Digits[i] = c) - 1

RECURSIVE Magnitude(_)
Magnitude(s) ==
    IF s = <<>> THEN 0
    ELSE 10 * Magnitude(SubSeq(s, 1, Len(s) - 1)) + DigitVal(s[Len(s)])

\* strconv.ParseInt(s, 10, 32): an optional sign, then decimal digits only;
\* a syntax or range error otherwise.
ParseInt(s) ==
    LET signed == s # <<>> /\ s[1] \in {"-", "+"}
        neg    == s # <<>> /\ s[1] = "-"
        ds     == IF signed THEN Tail(s) ELSE s
    IN  IF ds = <<>> \/ \E i \in 1..Len(ds) : ~IsDigit(ds[i])
        THEN [err |-> TRUE, val |-> 0]
        ELSE LET m == Magnitude(ds)
             IN  IF ~neg /\ m > MaxInt32 THEN [err |-> TRUE, val |-> MaxInt32]
                 ELSE IF neg /\ m - 1 > MaxInt32 THEN [err |-> TRUE, val |-> -MaxInt32 - 1]
                 ELSE [err |-> FALSE, val |-> IF neg THEN -m ELSE m]

\* getInt32Param: the parse must succeed and the value must not be zero.
getInt32Param(paramStr) ==
    LET p == ParseInt(paramStr)
    IN  IF p.err \/ p.val = 0
        THEN [err |-> TRUE, val |-> 0]
        ELSE [err |-> FALSE, val |-> p.val]

\* The path parameters clients send: every identifier of the model, one
\* more than the last house, zero, a negative number and a non-numeral.
ParamStrs ==
    {<<"0">>, <<"a">>, <<"-", "1">>} \cup {<<Digits[n + 1]>> : n \in ParamRange}

\* ---------------------------------------------------------- request bodies
\* A decoded JSON body of POST /trees/{houseID}: the fields of Tree.
Body(species, x, y, id, fallen) ==
    [ID |-> id, Species |-> species, XCoord |-> x, YCoord |-> y, Fallen |-> fallen]

Malformed == [ID |-> -1, Species |-> "<not json>", XCoord |-> 0, YCoord |-> 0, Fallen |-> FALSE]

NoBody == Body("", 0, 0, 0, FALSE)

ValidBodies ==
    { Body("oak", 1, 1, 0, FALSE),
      Body("oak", 1, MaxCoord, 0, FALSE),
      Body("oak", 1, 1, 7, TRUE) }

InvalidBodies ==
    { Body("", 1, 1, 0, FALSE),
      Body("oak", 0, 1, 0, FALSE),
      Body("oak", MaxCoord + 1, 1, 0, FALSE),
      Body("oak", 1, 0, 0, FALSE),
      Body("oak", 1, MaxCoord + 1, 0, FALSE),
      Malformed }

Bodies == ValidBodies \cup InvalidBodies

\* ------------------------------------------------------------------ errors
ErrDuplicateTree    == "tree already growing at given house and absolute location"
ErrNoMatchingRecord == "no record matching ID"
ErrNoTrees          == "no trees at house"

\* ------------------------------------------------------------------- state
VARIABLES
    houses,       \* neighborhood.house: the identifiers of its rows
    trees,        \* neighborhood.tree, committed: identifier -> row
    nextID,       \* the AUTO_INCREMENT counter of neighborhood.tree
    orphanLocks,  \* rows locked by transactions a finished request left open
    req,          \* per request slot: position, locals, transaction, response
    e2e           \* history: how far a client got through the end-to-end sequence

\* The process around the handlers (main.go).
VARIABLES
    environ,      \* the environment variables that are set
    reachable,    \* whether the store answers db.Ping() and db.Prepare()
    main,         \* the main goroutine: position in run(), exit code and its cause
    db,           \* the *sql.DB: whether it is open, and the calls of db.Close()
    stmts,        \* store.stmts: per query, whether prepared, and the calls of Close()
    listening,    \* the goroutine in http.ListenAndServe: "off", "on" or "failed"
    shutdown,     \* the values buffered in the channel shutdown
    serverErrors, \* the values buffered in the channel serverErrors
    conn          \* per connection: the request being served and its store calls left

dbVars == <<houses, trees, nextID, orphanLocks>>
runVars == <<environ, reachable, main, db, stmts, listening, shutdown, serverErrors, conn>>
serveVars == <<houses, trees, nextID, orphanLocks, req, e2e>>
vars == <<houses, trees, nextID, orphanLocks, req, e2e,
          environ, reachable, main, db, stmts, listening, shutdown, serverErrors, conn>>

NoResp == [status |-> 0, message |-> "", body |-> <<>>]

IdleReq ==
    [ pc |-> "idle", route |-> "", paramInt |-> 0, body |-> NoBody,
      tx |-> "none", treeIDs |-> <<>>, treeID |-> 0, lockRow |-> 0,
      rowsAffected |-> -1, resp |-> NoResp, fault |-> FALSE ]

\* No end-to-end sequence is under way.
E2ENone == [stage |-> 0, by |-> 0, houseID |-> 0, x |-> 0, y |-> 0, treeID |-> 0]

\* ------------------------------------------------------------ the process
\* main.go:27-30 and main.go:33-37
EnvKeys == {"DB_USER", "DB_PASSWORD", "DB_HOST", "DB_NAME"}

requiredEnv == {"DB_USER", "DB_PASSWORD", "DB_HOST"}

\* store.go:20-28: the keys of unprepared.
Queries ==
    {"get-all-houses", "get-house-exists-by-house-id", "get-trees-by-house-id",
     "add-tree-by-house-id", "add-house", "get-tree-ids-by-house-id",
     "fell-tree-by-tree-id", "get-tree-fallen-by-tree-id", "delete-tree-by-tree-id"}

Conns == 1..NumConns

\* The exit status is not yet known.
Running == -1

NoStmt == [prepared |-> FALSE, closes |-> 0]

Prepared == [prepared |-> TRUE, closes |-> 0]

IdleConn == [pc |-> "idle", calls |-> <<>>, status |-> 0]

\* run() blocked in its select with the server listening (main.go:105-110):
\* the configuration was present, a probe succeeded, every statement was
\* prepared and the signals are caught.
Serving ==
    /\ main = [pc |-> "select", pinged |-> "ok", cause |-> "", exit |-> Running]
    /\ db = [open |-> TRUE, closes |-> 0]
    /\ stmts = [k \in Queries |-> Prepared]
    /\ listening = "on"
    /\ shutdown = 0
    /\ serverErrors = 0

\* The tables as the service finds them: the houses, and no tree yet.
Tables ==
    /\ houses = HouseIDs
    /\ trees = << >>
    /\ nextID = 1
    /\ orphanLocks = {}
    /\ req = [r \in Reqs |-> IdleReq]
    /\ e2e = E2ENone

\* The service while it serves: the process stays in its select.
Init ==
    /\ Tables
    /\ environ = EnvKeys
    /\ reachable = TRUE
    /\ Serving
    /\ conn = [c \in Conns |-> IdleConn]

\* A request is in flight from its first step until it answers or panics.
InFlight(r) == req[r].pc \notin {"idle", "done", "panicked"}

\* No answer is waiting to be taken: taking an answer (Finish) reads and
\* writes nothing another request reads, so it is scheduled first.
Quiet == \A q \in Reqs : req[q].pc \notin {"done", "panicked"}

At(r, pc) == Quiet /\ req[r].pc = pc

\* ------------------------------------------------------------ store reads
RECURSIVE Ascending(_)
Ascending(S) ==
    IF S = {} THEN <<>>
    ELSE LET m == CHOOSE x \in S : \A y \in S : x <= y
         IN  <<m>> \o Ascending(S \ {m})

\* Every order in which a SELECT without ORDER BY may return the set S.
Orders(S) ==
    {s \in [1..Cardinality(S) -> S] : \A i, j \in 1..Cardinality(S) : i # j => s[i] # s[j]}

Prefixes(s) == {SubSeq(s, 1, n) : n \in 0..Len(s)}

TreesAt(houseID) == {t \in DOMAIN trees : trees[t].house_id = houseID}

\* The Tree struct scanned from a row (store.go:181-195).
ScanTree(t) ==
    [ID |-> t, Species |-> trees[t].species, XCoord |-> trees[t].x_coord,
     YCoord |-> trees[t].y_coord, Fallen |-> trees[t].fallen]

\* Mutant of GetHouseExistsByHouseID: every identifier is taken for a house.
HouseAlwaysFound(houseID) == TRUE

\* queryGetHouseExistsByHouseID
GetHouseExistsByHouseID(houseID) == houseID \in houses

\* queryGetTreesByHouseID: ORDER BY t.id ASC
GetTreesByHouseID(houseID) ==
    LET ids == Ascending(TreesAt(houseID))
    IN  [i \in 1..Len(ids) |-> ScanTree(ids[i])]

\* ---------------------------------------------------------------- answers
\* The handler returns: only the answer, the transaction and whether a
\* call failed remain of the request.
Answer(rq, resp) ==
    [IdleReq EXCEPT !.pc = "done", !.route = rq.route, !.tx = rq.tx,
                    !.lockRow = IF rq.tx = "open" THEN rq.lockRow ELSE 0,
                    !.fault = rq.fault, !.resp = resp]

\* The handler panics: net/http recovers, closes the connection to the
\* client and sends no answer.  Deferred calls run; nothing else does.
Panic(rq) ==
    [IdleReq EXCEPT !.pc = "panicked", !.route = rq.route, !.tx = rq.tx,
                    !.lockRow = IF rq.tx = "open" THEN rq.lockRow ELSE 0,
                    !.fault = rq.fault]

sendError(rq, msg, status) ==
    Answer(rq, [status |-> status, message |-> msg, body |-> <<>>])

sendJSON(rq, object) ==
    Answer(rq, [status |-> 200, message |-> "", body |-> object])

\* A call into the store failed for a reason outside the program.
Faulted(rq) == [rq EXCEPT !.fault = TRUE]

\* A transaction a finished request left open keeps its row lock.
LeakedLock(rq) ==
    IF rq.tx = "open" /\ rq.lockRow # 0 THEN {rq.lockRow} ELSE {}

\* ------------------------------------------- the end-to-end sequence
\* A history variable, read by no action.  One client, with no other
\* request in flight and no failing store call, sends in this order
\*   1. POST /trees/h      (h an existing house without trees, a body with
\*                          valid species and coordinates and nothing else)
\*   2. the same POST again
\*   3. POST /storm/h
\*   4. DELETE /trees/t    (t the identifier answered in step 1)
\*   5. GET /trees/h
\* e2e.stage counts the steps answered as the sequence expects (200 with a
\* new tree standing, 400 duplicate, 200 with t fallen, 200, 404); e2e.by is
\* the slot running the next step.  A step answered otherwise, or ended by
\* a panic, makes the stage negative.  Anything else a client does, and any
\* failing store call, abandons the sequence.
E2EFailed == [E2ENone EXCEPT !.stage = -1]

E2EExpects(rq) ==
    /\ e2e.stage \in 1..4
    /\ e2e.by = 0
    /\ rq.route = CASE e2e.stage = 1 -> "POST /trees"
                    [] e2e.stage = 2 -> "POST /storm"
                    [] e2e.stage = 3 -> "DELETE /trees"
                    [] e2e.stage = 4 -> "GET /trees"
    /\ rq.paramInt = IF e2e.stage = 3 THEN e2e.treeID ELSE e2e.houseID

E2EAnswered(resp) ==
    CASE e2e.stage = 0 ->
            /\ resp.status = 200
            /\ Len(resp.body) = 1
            /\ resp.body[1].ID \notin DOMAIN trees
            /\ ~resp.body[1].Fallen
      [] e2e.stage = 1 -> resp.status = 400 /\ resp.message = ErrDuplicateTree
      [] e2e.stage = 2 ->
            /\ resp.status = 200
            /\ \E i \in 1..Len(resp.body) :
                    resp.body[i].ID = e2e.treeID /\ resp.body[i].Fallen
      [] e2e.stage = 3 -> resp.status = 200
      [] e2e.stage = 4 -> resp.status = 404

E2ENext(r) ==
    LET old == req[r]
        new == req'[r]
    IN  IF old.pc \in {"done", "panicked"} THEN e2e
        ELSE IF old.pc = "idle"
        THEN IF new.pc = "done" \/ \E q \in Reqs \ {r} : req[q].pc # "idle"
             THEN E2ENone
             ELSE IF E2EExpects(new) THEN [e2e EXCEPT !.by = r]
             ELSE IF /\ new.route = "POST /trees"
                     /\ new.paramInt \in houses
                     /\ TreesAt(new.paramInt) = {}
             THEN [E2ENone EXCEPT !.by = r, !.houseID = new.paramInt]
             ELSE E2ENone
        ELSE IF e2e.by # r THEN e2e
        ELSE IF new.fault THEN E2ENone
        ELSE IF new.pc = "panicked" THEN E2EFailed
        ELSE IF old.pc = "add_exists"
        THEN IF new.pc # "add_insert" \/ new.body.ID # 0 \/ new.body.Fallen
             THEN E2ENone
             ELSE IF e2e.stage = 0
             THEN [e2e EXCEPT !.x = new.body.XCoord, !.y = new.body.YCoord]
             ELSE IF new.body.XCoord = e2e.x /\ new.body.YCoord = e2e.y
             THEN e2e
             ELSE E2ENone
        ELSE IF new.pc # "done" THEN e2e
        ELSE IF ~E2EAnswered(new.resp) THEN E2EFailed
        ELSE [e2e EXCEPT !.stage = @ + 1, !.by = 0,
                         !.treeID = IF e2e.stage = 0 THEN new.resp.body[1].ID ELSE @]

\* A request arrives in slot r and its path parameter is parsed.
Begin(r, route, pc, paramStr) ==
    /\ At(r, "idle")
    /\ LET p     == getInt32Param(paramStr)
           fresh == [IdleReq EXCEPT !.route = route]
       IN  req' = [req EXCEPT ![r] =
                IF p.err
                THEN sendError(fresh, "param %s must be a valid, non-zero numeral", 400)
                ELSE [fresh EXCEPT !.pc = pc, !.paramInt = p.val]]
    /\ UNCHANGED dbVars
    /\ e2e' = E2ENext(r)
    /\ UNCHANGED runVars

\* The answer of slot r is taken and its goroutine ends; a transaction it
\* left open stays open, with its lock, for the life of the process.
Finish(r) ==
    /\ req[r].pc \in {"done", "panicked"}
    /\ req' = [req EXCEPT ![r] = IdleReq]
    /\ orphanLocks' = orphanLocks \cup LeakedLock(req[r])
    /\ UNCHANGED <<houses, trees, nextID>>
    /\ e2e' = E2ENext(r)
    /\ UNCHANGED runVars

\* The house-existence check the three house routes start with; found is
\* the request as the handler continues with it when the house exists.
CheckHouse(r, pc, found) ==
    /\ At(r, pc)
    /\ \/ req' = [req EXCEPT ![r] =
                IF GetHouseExistsByHouseID(@.paramInt)
                THEN found
                ELSE sendError(@, "no House exists with ID", 404)]
       \/ \* the query fails
          req' = [req EXCEPT ![r] = sendError(Faulted(@), "server error getting House", 500)]
    /\ UNCHANGED dbVars
    /\ e2e' = E2ENext(r)
    /\ UNCHANGED runVars

\* A result set that broke off: rows.Next() returns false and rows.Err(),
\* which holds the reason, is never read (store.go:135-153, 180-198, 255-263).
BrokenOff(all) == Prefixes(all) \ {all}

\* ------------------------------------------------------------ GET /houses
\* queryGetAllHouses: ORDER BY h.id ASC.  Of a House only the identifier
\* is kept.
GetAllHouses ==
    LET ids == Ascending(houses)
    IN  [i \in 1..Len(ids) |-> [ID |-> ids[i]]]

\* handler.go:43-48: an empty list is a 404.
SendHouses(rq, got) ==
    IF Len(got) = 0
    THEN sendError(rq, "no houses in the neighborhood", 404)
    ELSE sendJSON(rq, got)

\* handler.GetAllHouses: no parameter, one call into the store.
GetHousesList(r) ==
    /\ At(r, "idle")
    /\ LET fresh == [IdleReq EXCEPT !.route = "GET /houses"]
           all   == GetAllHouses
       IN  \/ req' = [req EXCEPT ![r] = SendHouses(fresh, all)]
           \/ \E got \in BrokenOff(all) :
                req' = [req EXCEPT ![r] = SendHouses(Faulted(fresh), got)]
           \/ \* the query or a scan fails
              req' = [req EXCEPT ![r] = sendError(Faulted(fresh), "server error getting houses", 500)]
    /\ UNCHANGED dbVars
    /\ e2e' = E2ENext(r)
    /\ UNCHANGED runVars

\* ------------------------------------------------- GET /trees/{houseID}
GetTreesStart(r) ==
    \E paramStr \in ParamStrs : Begin(r, "GET /trees", "get_exists", paramStr)

GetTreesFound(rq) == [rq EXCEPT !.pc = "get_trees"]

GetTreesExists(r) == CheckHouse(r, "get_exists", GetTreesFound(req[r]))

\* handler.go:77-82: an empty list is a 404.
SendTrees(rq, got) ==
    IF Len(got) = 0
    THEN sendError(rq, "no trees growing at house", 404)
    ELSE sendJSON(rq, got)

GetTreesList(r) ==
    /\ At(r, "get_trees")
    /\ LET all == GetTreesByHouseID(req[r].paramInt)
       IN  \/ req' = [req EXCEPT ![r] = SendTrees(@, all)]
           \/ \E got \in BrokenOff(all) :
                req' = [req EXCEPT ![r] = SendTrees(Faulted(@), got)]
           \/ \* the query or a scan fails
              req' = [req EXCEPT ![r] = sendError(Faulted(@), "server error getting Trees", 500)]
    /\ UNCHANGED dbVars
    /\ e2e' = E2ENext(r)
    /\ UNCHANGED runVars

\* ------------------------------------------------ POST /trees/{houseID}
AddTreeStart(r) ==
    \E paramStr \in ParamStrs : Begin(r, "POST /trees", "add_exists", paramStr)

\* Mutant of ValidateTree: the upper bound of the coordinates is not checked.
ValidateTreeUnbounded(rq, body) ==
    IF body = Malformed
    THEN sendError(rq, "error decoding request body as Tree", 400)
    ELSE IF body.Species = ""
    THEN sendError(rq, "must specify species", 400)
    ELSE IF body.XCoord <= 0
    THEN sendError(rq, "must specify an x coordinate between 1-255", 400)
    ELSE IF body.YCoord <= 0
    THEN sendError(rq, "must specify a y coordinate between 1-255", 400)
    ELSE [rq EXCEPT !.pc = "add_insert", !.body = body]

\* Decoding and validating the body (handler.go:141-160).
ValidateTree(rq, body) ==
    IF body = Malformed
    THEN sendError(rq, "error decoding request body as Tree", 400)
    ELSE IF body.Species = ""
    THEN sendError(rq, "must specify species", 400)
    ELSE IF body.XCoord <= 0 \/ body.XCoord > MaxCoord
    THEN sendError(rq, "must specify an x coordinate between 1-255", 400)
    ELSE IF body.YCoord <= 0 \/ body.YCoord > MaxCoord
    THEN sendError(rq, "must specify a y coordinate between 1-255", 400)
    ELSE [rq EXCEPT !.pc = "add_insert", !.body = body]

\* The body is read from the request only once the house was found.
AddTreeExists(r) ==
    \E body \in Bodies :
        CheckHouse(r, "add_exists", ValidateTree(req[r], body))

\* Mutant of ViolatesAbsoluteLocation: the index leaves out y_coord.
IndexWithoutYCoord(houseID, x, y) ==
    \E t \in DOMAIN trees : trees[t].house_id = houseID /\ trees[t].x_coord = x

\* The unique index absolute_location (tree.sql:18).
ViolatesAbsoluteLocation(houseID, x, y) ==
    \E t \in DOMAIN trees :
        /\ trees[t].house_id = houseID
        /\ trees[t].x_coord = x
        /\ trees[t].y_coord = y

\* Mutant of InsertedRow: the INSERT also stores the body's fallen field.
InsertedRowWithFallen(houseID, t) ==
    [house_id |-> houseID, species |-> t.Species, x_coord |-> t.XCoord,
     y_coord |-> t.YCoord, fallen |-> t.Fallen]

\* The row queryAddTreeByHouseID inserts: fallen takes its DEFAULT 0.
InsertedRow(houseID, t) ==
    [house_id |-> houseID, species |-> t.Species, x_coord |-> t.XCoord,
     y_coord |-> t.YCoord, fallen |-> FALSE]

\* The INSERT goes through: the index and the foreign key allow it.  (The
\* guard on nextID bounds the model, not the program.)
InsertTree(houseID, t) ==
    /\ ~ViolatesAbsoluteLocation(houseID, t.XCoord, t.YCoord)
    /\ houseID \in houses
    /\ nextID <= MaxTreeID
    /\ trees' = (nextID :> InsertedRow(houseID, t)) @@ trees
    /\ nextID' = nextID + 1

\* MySQLStore.AddTreeByHouseID and the handler's answer.
AddTreeInsert(r) ==
    /\ At(r, "add_insert")
    /\ LET houseID == req[r].paramInt
           t       == req[r].body
       IN  \/ \* the row is inserted, t.ID = int32(id)
              /\ InsertTree(houseID, t)
              /\ req' = [req EXCEPT ![r] = sendJSON(@, <<[t EXCEPT !.ID = nextID]>>)]
           \/ \* Exec fails with error 1062
              /\ ViolatesAbsoluteLocation(houseID, t.XCoord, t.YCoord)
              /\ req' = [req EXCEPT ![r] = sendError(@, ErrDuplicateTree, 400)]
              /\ UNCHANGED <<trees, nextID>>
           \/ \* Exec fails, not with error 1062
              /\ req' = [req EXCEPT ![r] = sendError(Faulted(@), "server error adding Tree", 500)]
              /\ UNCHANGED <<trees, nextID>>
           \/ \* the row is inserted, LastInsertId fails
              /\ InsertTree(houseID, t)
              /\ req' = [req EXCEPT ![r] = sendError(Faulted(@), "server error adding Tree", 500)]
    /\ UNCHANGED <<houses, orphanLocks>>
    /\ e2e' = E2ENext(r)
    /\ UNCHANGED runVars

\* ------------------------------------------------ DELETE /trees/{treeID}
RemoveTreeStart(r) ==
    \E paramStr \in ParamStrs : Begin(r, "DELETE /trees", "rm_fallen", paramStr)

\* Mutant of RemoveTreeChecked: the handler does not look at fallen.
RemoveTreeUnchecked(rq) ==
    IF rq.paramInt \notin DOMAIN trees
    THEN sendError(rq, "no Tree found with ID", 404)
    ELSE [rq EXCEPT !.pc = "rm_delete"]

\* handler.go:223-237: ErrNoMatchingRecord is a 404, a standing tree a 400.
RemoveTreeChecked(rq) ==
    IF rq.paramInt \notin DOMAIN trees
    THEN sendError(rq, "no Tree found with ID", 404)
    ELSE IF ~trees[rq.paramInt].fallen
    THEN sendError(rq, "call us back when the Tree falls", 400)
    ELSE [rq EXCEPT !.pc = "rm_delete"]

\* MySQLStore.GetTreeFallenByTreeID and the handler's checks.
RemoveTreeFallen(r) ==
    /\ At(r, "rm_fallen")
    /\ \/ req' = [req EXCEPT ![r] = RemoveTreeChecked(@)]
       \/ \* the query fails, not with sql.ErrNoRows
          req' = [req EXCEPT ![r] = sendError(Faulted(@), "server error getting Tree", 500)]
    /\ UNCHANGED dbVars
    /\ e2e' = E2ENext(r)
    /\ UNCHANGED runVars

\* Rows locked by a transaction other than request r's.
LockedByOther(r, t) ==
    \/ t \in orphanLocks
    \/ \E q \in Reqs \ {r} : req[q].tx = "open" /\ req[q].lockRow = t

\* queryRemoveTreeByTreeID deletes the row; it waits for a row another
\* transaction has locked.
DeleteTree(r, treeID) ==
    /\ treeID \in DOMAIN trees
    /\ ~LockedByOther(r, treeID)
    /\ trees' = [u \in DOMAIN trees \ {treeID} |-> trees[u]]

\* MySQLStore.RemoveTreeByTreeID and the handler's answer.
RemoveTreeDelete(r) ==
    /\ At(r, "rm_delete")
    /\ LET treeID == req[r].paramInt
       IN  \/ \* the row is deleted
              /\ DeleteTree(r, treeID)
              /\ req' = [req EXCEPT ![r] =
                        Answer(@, [status |-> 200, message |-> "", body |-> <<>>])]
           \/ \* rowsAffected == 0
              /\ treeID \notin DOMAIN trees
              /\ req' = [req EXCEPT ![r] = sendError(@, "server error removing Tree", 500)]
              /\ UNCHANGED trees
           \/ \* Exec fails
              /\ req' = [req EXCEPT ![r] = sendError(Faulted(@), "server error removing Tree", 500)]
              /\ UNCHANGED trees
           \/ \* the row is deleted, RowsAffected fails
              /\ DeleteTree(r, treeID)
              /\ req' = [req EXCEPT ![r] = sendError(Faulted(@), "server error removing Tree", 500)]
    /\ UNCHANGED <<houses, nextID, orphanLocks>>
    /\ e2e' = E2ENext(r)
    /\ UNCHANGED runVars

\* ------------------------------------------------ POST /storm/{houseID}
StormStart(r) ==
    \E paramStr \in ParamStrs : Begin(r, "POST /storm", "storm_exists", paramStr)

StormFound(rq) == [rq EXCEPT !.pc = "storm_query"]

StormExists(r) == CheckHouse(r, "storm_exists", StormFound(req[r]))

\* Mutant of GetTreeIDsByHouseID: the WHERE clause is missing.
GetTreeIDsOfEveryHouse(houseID) == Orders(DOMAIN trees)

\* queryGetTreeIDsByHouseID: house JOIN tree, no ORDER BY, so the rows come
\* in an order the store chooses.
GetTreeIDsByHouseID(houseID) ==
    IF houseID \in houses THEN Orders(TreesAt(houseID)) ELSE {<<>>}

\* store.db.Begin()
BeginTx(rq) == [rq EXCEPT !.tx = "open"]

\* Mutant of Rollback: the call is missing.
RollbackMissing(rq) == rq

\* tx.Rollback(): the transaction ends and its lock and change are dropped.
Rollback(rq) == [rq EXCEPT !.tx = "rolledback", !.lockRow = 0]

\* Mutant of Candidates: the handler answers ErrNoTrees with a 404.
CandidatesNotFound(rq, treeIDs) ==
    IF Len(treeIDs) = 0
    THEN sendError(Rollback(rq), ErrNoTrees, 404)
    ELSE [rq EXCEPT !.pc = "storm_fell", !.treeIDs = treeIDs]

\* store.go:265-268: no candidate, no storm.
Candidates(rq, treeIDs) ==
    IF Len(treeIDs) = 0
    THEN sendError(Rollback(rq), ErrNoTrees, 400)
    ELSE [rq EXCEPT !.pc = "storm_fell", !.treeIDs = treeIDs]

\* FellRandomTreeByHouseID up to the emptiness check (store.go:241-268):
\* db.Begin reads and writes no row, so it is taken with the first query.
StormQuery(r) ==
    /\ At(r, "storm_query")
    /\ \/ \E treeIDs \in GetTreeIDsByHouseID(req[r].paramInt) :
            req' = [req EXCEPT ![r] = Candidates(BeginTx(@), treeIDs)]
       \/ \E all \in GetTreeIDsByHouseID(req[r].paramInt) :
            \E treeIDs \in BrokenOff(all) :
                req' = [req EXCEPT ![r] = Candidates(Faulted(BeginTx(@)), treeIDs)]
       \/ \* Query or Scan fails
          req' = [req EXCEPT ![r] =
                    sendError(Rollback(Faulted(BeginTx(@))), "server error sending storm", 500)]
       \/ \* db.Begin fails
          req' = [req EXCEPT ![r] = sendError(Faulted(@), "server error sending storm", 500)]
    /\ UNCHANGED dbVars
    /\ e2e' = E2ENext(r)
    /\ UNCHANGED runVars

\* rand.Intn(n) returns a number of [0, n) and panics when n <= 0.
Intn(n) == 0..(n - 1)

\* store.go:270
RandIndexes(treeIDs) == Intn(Len(treeIDs) - 1)

\* queryFellTreeByTreeID inside the transaction: the row is locked; the
\* rows affected are the rows changed (the DSN does not set clientFoundRows).
FellTreeByTreeID(rq, treeID) ==
    LET found == treeID \in DOMAIN trees
    IN  [rq EXCEPT !.treeID = treeID, !.treeIDs = <<>>,
                   !.lockRow = IF found THEN treeID ELSE 0,
                   !.rowsAffected = IF found /\ ~trees[treeID].fallen THEN 1 ELSE 0]

\* store.go:270-283: the pick, the UPDATE and the rows-affected count.  The
\* UPDATE waits for a row another transaction has locked.
StormFell(r) ==
    /\ At(r, "storm_fell")
    /\ \/ \E randIndex \in RandIndexes(req[r].treeIDs) :
            LET treeID == req[r].treeIDs[randIndex + 1]
            IN  \/ /\ ~LockedByOther(r, treeID)
                   /\ req' = [req EXCEPT ![r] =
                            [FellTreeByTreeID(@, treeID) EXCEPT !.pc = "storm_commit"]]
                \/ \* Exec fails
                   req' = [req EXCEPT ![r] =
                            sendError(Rollback(Faulted(@)), "server error sending storm", 500)]
                \/ \* RowsAffected fails: the return without Rollback
                   /\ ~LockedByOther(r, treeID)
                   /\ req' = [req EXCEPT ![r] =
                            sendError(Faulted(FellTreeByTreeID(@, treeID)),
                                      "server error sending storm", 500)]
       \/ \* rand.Intn panics
          /\ Len(req[r].treeIDs) - 1 <= 0
          /\ req' = [req EXCEPT ![r] = Panic(@)]
    /\ UNCHANGED dbVars
    /\ e2e' = E2ENext(r)
    /\ UNCHANGED runVars

\* Mutant of Committed: the UPDATE ran outside the transaction and is lost.
CommittedNothing(rq) == trees

\* The committed table once request rq's transaction commits.
Committed(rq) ==
    IF rq.rowsAffected = 1
    THEN [trees EXCEPT ![rq.lockRow].fallen = TRUE]
    ELSE trees

\* store.go:285-293
StormCommit(r) ==
    /\ At(r, "storm_commit")
    /\ \/ /\ trees' = Committed(req[r])
          /\ req' = [req EXCEPT ![r] =
                    [@ EXCEPT !.pc = "storm_refetch", !.tx = "committed", !.lockRow = 0]]
       \/ \* Commit fails; the Rollback after it finds the transaction over
          /\ req' = [req EXCEPT ![r] =
                    sendError(Rollback(Faulted(@)), "server error sending storm", 500)]
          /\ UNCHANGED trees
    /\ UNCHANGED <<houses, nextID, orphanLocks>>
    /\ e2e' = E2ENext(r)
    /\ UNCHANGED runVars

\* handler.go:206-212: the trees of the house are read again and sent.
StormRefetch(r) ==
    /\ At(r, "storm_refetch")
    /\ LET all == GetTreesByHouseID(req[r].paramInt)
       IN  \/ req' = [req EXCEPT ![r] = sendJSON(@, all)]
           \/ \E got \in BrokenOff(all) :
                req' = [req EXCEPT ![r] = sendJSON(Faulted(@), got)]
           \/ \* the query or a scan fails
              req' = [req EXCEPT ![r] =
                    sendError(Faulted(@), "server error getting trees post-storm", 500)]
    /\ UNCHANGED dbVars
    /\ e2e' = E2ENext(r)
    /\ UNCHANGED runVars

\* ------------------------------------------------------- POST /houses
\* Mutant of Routes: handler.AddHouse is registered for POST /houses.
RoutesWithAddHouse ==
    { <<"*", "/", "ReportHealth">>,
      <<"GET", "/houses", "GetAllHouses">>,
      <<"POST", "/houses", "AddHouse">>,
      <<"GET", "/trees/{houseID}", "GetTreesByHouseID">>,
      <<"POST", "/trees/{houseID}", "AddTreeByHouseID">>,
      <<"DELETE", "/trees/{treeID}", "RemoveTreeByTreeID">>,
      <<"POST", "/storm/{houseID}", "SendStormByHouseID">> }

\* main.go:87-93: method, path template and handler of each route; the
\* first route is registered without Methods and takes every method.
Routes ==
    { <<"*", "/", "ReportHealth">>,
      <<"GET", "/houses", "GetAllHouses">>,
      <<"GET", "/trees/{houseID}", "GetTreesByHouseID">>,
      <<"POST", "/trees/{houseID}", "AddTreeByHouseID">>,
      <<"DELETE", "/trees/{treeID}", "RemoveTreeByTreeID">>,
      <<"POST", "/storm/{houseID}", "SendStormByHouseID">> }

\* The handler the router finds for a method and a path template, "" when
\* no route takes them.
Match(method, path) ==
    LET found == {rt \in Routes : rt[1] \in {method, "*"} /\ rt[2] = path}
    IN  IF found = {} THEN "" ELSE (CHOOSE rt \in found : TRUE)[3]

\* Decoded bodies of POST /houses: one the handler accepts, one without
\* the first address line.
HouseBodies ==
    { [AddressOne |-> "1 Elm St", City |-> "Springfield", State |-> "IL"],
      [AddressOne |-> "", City |-> "Springfield", State |-> "IL"] }

\* handler.AddHouse and MySQLStore.AddHouse: the only code that writes
\* the house table.  (The guard on the new identifier bounds the model.)
AddHouse(r, fresh, house) ==
    IF house.AddressOne = ""
    THEN /\ req' = [req EXCEPT ![r] = sendError(fresh, "must specify address one", 400)]
         /\ UNCHANGED houses
    ELSE \/ /\ NumHouses + 1 \notin houses
            /\ houses' = houses \cup {NumHouses + 1}
            /\ req' = [req EXCEPT ![r] = sendJSON(fresh, <<[ID |-> NumHouses + 1]>>)]
         \/ \* Exec or LastInsertId fails
            /\ req' = [req EXCEPT ![r] =
                    sendError(Faulted(fresh), "server error adding House", 500)]
            /\ UNCHANGED houses

\* A client sends POST /houses.  The path is registered for GET only: the
\* router answers itself, 405 or, with a router that does not tell a
\* wrong method from a wrong path, 404, and calls no handler.
PostHouses(r) ==
    /\ At(r, "idle")
    /\ LET fresh == [IdleReq EXCEPT !.route = "POST /houses"]
       IN  IF Match("POST", "/houses") = "AddHouse"
           THEN \E house \in HouseBodies : AddHouse(r, fresh, house)
           ELSE /\ \E status \in {404, 405} :
                    req' = [req EXCEPT ![r] = sendError(fresh, "", status)]
                /\ UNCHANGED houses
    /\ UNCHANGED <<trees, nextID, orphanLocks>>
    /\ e2e' = E2ENext(r)
    /\ UNCHANGED runVars

Next ==
    \E r \in Reqs :
        \/ Finish(r)
        \/ PostHouses(r)
        \/ GetHousesList(r)
        \/ GetTreesStart(r)
        \/ GetTreesExists(r)
        \/ GetTreesList(r)
        \/ AddTreeStart(r)
        \/ AddTreeExists(r)
        \/ AddTreeInsert(r)
        \/ RemoveTreeStart(r)
        \/ RemoveTreeFallen(r)
        \/ RemoveTreeDelete(r)
        \/ StormStart(r)
        \/ StormExists(r)
        \/ StormQuery(r)
        \/ StormFell(r)
        \/ StormCommit(r)
        \/ StormRefetch(r)

Spec == Init /\ [][Next]_vars

\* The tables outlive the process.  Rows that POST /trees requests of an
\* earlier run inserted: all standing, the last one at the last house, the
\* others at house 1, each at a location of its own.
Planted ==
    [t \in 1..NumPlanted |->
        InsertedRow(IF t = NumPlanted THEN NumHouses ELSE 1, Body("oak", t, 1, 0, FALSE))]

\* The service starts serving over empty tree tables or over planted ones.
PlantedInit ==
    /\ houses = HouseIDs
    /\ \/ trees = << >> /\ nextID = 1
       \/ trees = Planted /\ nextID = NumPlanted + 1
    /\ orphanLocks = {}
    /\ req = [r \in Reqs |-> IdleReq]
    /\ e2e = E2ENone
    /\ environ = EnvKeys
    /\ reachable = TRUE
    /\ Serving
    /\ conn = [c \in Conns |-> IdleConn]

PlantedSpec == PlantedInit /\ [][Next]_vars

\* ------------------------------------------------ run() (main.go:48-113)
\* The statements each handler calls, in order (handler.go).
RouteCalls ==
    { <<"get-all-houses">>,
      <<"get-house-exists-by-house-id", "get-trees-by-house-id">>,
      <<"get-house-exists-by-house-id", "add-tree-by-house-id">>,
      <<"get-tree-fallen-by-tree-id", "delete-tree-by-tree-id">>,
      <<"get-house-exists-by-house-id", "get-tree-ids-by-house-id",
        "fell-tree-by-tree-id", "get-trees-by-house-id">> }

\* The process starts: nothing is opened, prepared or listening yet.
RunInit ==
    /\ Tables
    /\ environ \in SUBSET EnvKeys
    /\ reachable \in BOOLEAN
    /\ main = [pc |-> "start", pinged |-> "no", cause |-> "", exit |-> Running]
    /\ db = [open |-> FALSE, closes |-> 0]
    /\ stmts = [k \in Queries |-> NoStmt]
    /\ listening = "off"
    /\ shutdown = 0
    /\ serverErrors = 0
    /\ conn = [c \in Conns |-> IdleConn]

\* The phase of the process, read off the position of run().
Phase ==
    CASE main.pc = "start" -> "unconfigured"
      [] main.pc = "ping" -> "connecting"
      [] main.pc = "select" -> "serving"
      [] main.pc \in {"close_store", "close_db", "return"} -> "shutting down"
      [] main.pc = "exited" -> "closed"

\* Mutant of ExitCode: the process always exits with status 0.
ExitAlwaysZero(cause) == 0

\* main.go:42-45: status 1 when run() returns an error; run() returns nil
\* only after it received from shutdown (main.go:108-112).
ExitCode(cause) == IF cause = "signal" THEN 0 ELSE 1

\* The process ends, and with it every goroutine serving a request.
Exits(cause, status) ==
    /\ main' = [main EXCEPT !.pc = "exited", !.cause = cause, !.exit = status]
    /\ conn' = [c \in Conns |->
                IF conn[c].pc = "handling" THEN [conn[c] EXCEPT !.pc = "cut"] ELSE conn[c]]

\* main.go:49-61: the required variables are looked up and the DSN opened.
RunStart ==
    /\ main.pc = "start"
    /\ \/ /\ requiredEnv \subseteq environ
          /\ db' = [open |-> TRUE, closes |-> 0]
          /\ main' = [main EXCEPT !.pc = "ping"]
          /\ UNCHANGED conn
       \/ \* must set %s
          /\ ~(requiredEnv \subseteq environ)
          /\ Exits("config", ExitCode("config"))
          /\ UNCHANGED db
       \/ \* sql.Open fails: the DSN does not parse
          /\ requiredEnv \subseteq environ
          /\ Exits("open", ExitCode("open"))
          /\ UNCHANGED db
    /\ UNCHANGED <<environ, reachable, stmts, listening, shutdown, serverErrors, serveVars>>

\* Mutant of Ping: the probe reports success whatever the store does.
PingAlwaysNil == TRUE

\* db.Ping() == nil
Ping == reachable

\* main.go:68-73: after the sleep the probe fails and the loop goes round.
ProbeFails ==
    /\ main.pc = "ping"
    /\ ~Ping
    /\ main' = [main EXCEPT !.pinged = "failed"]
    /\ UNCHANGED <<environ, reachable, db, stmts, listening, shutdown, serverErrors,
                   conn, serveVars>>

\* main.go:68-103: the probe succeeds; NewMySQLStore prepares the
\* statements, the routes are registered, the signals are caught and the
\* server goroutine is started, or a db.Prepare fails and run() returns.
ProbeSucceeds ==
    /\ main.pc = "ping"
    /\ Ping
    /\ \/ /\ stmts' = [k \in Queries |-> Prepared]
          /\ listening' = "on"
          /\ main' = [main EXCEPT !.pc = "select", !.pinged = "ok"]
       \/ \* error preparing statement: those prepared before it stay open
          /\ \E ready \in (SUBSET Queries) \ {Queries} :
                stmts' = [k \in Queries |-> IF k \in ready THEN Prepared ELSE NoStmt]
          /\ main' = [main EXCEPT !.pc = "close_db", !.pinged = "ok", !.cause = "prepare"]
          /\ UNCHANGED listening
    /\ UNCHANGED <<environ, reachable, db, shutdown, serverErrors, conn, serveVars>>

\* The store comes up or goes down while the process starts.
StoreChanges ==
    /\ main.pc \in {"start", "ping"}
    /\ reachable' = ~reachable
    /\ UNCHANGED <<environ, main, db, stmts, listening, shutdown, serverErrors,
                   conn, serveVars>>

\* An interrupt or terminate signal arrives.  Before signal.Notify
\* (main.go:95-96) the runtime ends the process; after it the signal is
\* sent to shutdown, unless the buffer of one is full.
SignalArrives ==
    /\ main.pc # "exited"
    /\ \/ /\ listening = "off"
          /\ Exits("killed", 128 + 15)
          /\ UNCHANGED shutdown
       \/ /\ listening # "off"
          /\ shutdown = 0
          /\ shutdown' = 1
          /\ UNCHANGED <<main, conn>>
    /\ UNCHANGED <<environ, reachable, db, stmts, listening, serverErrors, serveVars>>

\* main.go:100-103: http.ListenAndServe returns, always with an error.
ServerFails ==
    /\ main.pc # "exited"
    /\ listening = "on"
    /\ listening' = "failed"
    /\ serverErrors' = 1
    /\ UNCHANGED <<environ, reachable, main, db, stmts, shutdown, conn, serveVars>>

\* main.go:105-110: run() leaves its select.
Select ==
    /\ main.pc = "select"
    /\ \/ /\ serverErrors = 1
          /\ serverErrors' = 0
          /\ main' = [main EXCEPT !.pc = "close_store", !.cause = "server"]
          /\ UNCHANGED shutdown
       \/ /\ shutdown = 1
          /\ shutdown' = 0
          /\ main' = [main EXCEPT !.pc = "close_store", !.cause = "signal"]
          /\ UNCHANGED serverErrors
    /\ UNCHANGED <<environ, reachable, db, stmts, listening, conn, serveVars>>

\* MySQLStore.Close, deferred at main.go:80-83: one statement of the map,
\* in the order the map gives, is closed.
CloseStmt ==
    /\ main.pc = "close_store"
    /\ \E k \in Queries :
        /\ stmts[k].closes = 0
        /\ stmts' = [stmts EXCEPT ![k].closes = @ + 1]
        /\ main' = [main EXCEPT !.pc =
                IF \A j \in Queries \ {k} : stmts[j].closes > 0
                THEN "close_db" ELSE "close_store"]
    /\ UNCHANGED <<environ, reachable, db, listening, shutdown, serverErrors, conn, serveVars>>

\* db.Close(), deferred at main.go:63-66.
CloseDB ==
    /\ main.pc = "close_db"
    /\ db' = [open |-> FALSE, closes |-> db.closes + 1]
    /\ main' = [main EXCEPT !.pc = "return"]
    /\ UNCHANGED <<environ, reachable, stmts, listening, shutdown, serverErrors, conn, serveVars>>

\* run() has returned: main exits (main.go:42-45).
Return ==
    /\ main.pc = "return"
    /\ Exits(main.cause, ExitCode(main.cause))
    /\ UNCHANGED <<environ, reachable, db, stmts, listening, shutdown, serverErrors, serveVars>>

\* The server accepts a request on connection c and routes it.
Accept(c) ==
    /\ main.pc # "exited"
    /\ listening = "on"
    /\ conn[c].pc \in {"idle", "answered"}
    /\ \E calls \in RouteCalls :
        conn' = [conn EXCEPT ![c] = [pc |-> "handling", calls |-> calls, status |-> 0]]
    /\ UNCHANGED <<environ, reachable, main, db, stmts, listening, shutdown,
                   serverErrors, serveVars>>

\* store.stmts[q] can be run: it is prepared, not closed, and the DB is open.
Usable(q) == stmts[q].prepared /\ stmts[q].closes = 0 /\ db.open

\* The handler on connection c makes its next call into the store and goes
\* on, or answers: 200 after its last call, a client error before it, 500
\* when the call fails.
Call(c) ==
    /\ main.pc # "exited"
    /\ conn[c].pc = "handling"
    /\ LET q    == Head(conn[c].calls)
           rest == Tail(conn[c].calls)
       IN  \/ /\ Usable(q)
              /\ rest # <<>>
              /\ conn' = [conn EXCEPT ![c].calls = rest]
           \/ /\ Usable(q)
              /\ conn' = [conn EXCEPT ![c] =
                    [pc |-> "answered", calls |-> <<>>,
                     status |-> IF rest = <<>> THEN 200 ELSE 404]]
           \/ \* sql: statement is closed, sql: database is closed
              /\ ~Usable(q)
              /\ conn' = [conn EXCEPT ![c] =
                    [pc |-> "answered", calls |-> <<>>, status |-> 500]]
    /\ UNCHANGED <<environ, reachable, main, db, stmts, listening, shutdown,
                   serverErrors, serveVars>>

RunNext ==
    \/ RunStart
    \/ ProbeFails
    \/ ProbeSucceeds
    \/ StoreChanges
    \/ SignalArrives
    \/ ServerFails
    \/ Select
    \/ CloseStmt
    \/ CloseDB
    \/ Return
    \/ \E c \in Conns : Accept(c) \/ Call(c)

\* The main goroutine is scheduled: a step it can take is taken.
RunSpec ==
    /\ RunInit
    /\ [][RunNext]_vars
    /\ WF_vars(ProbeFails)
    /\ WF_vars(ProbeSucceeds)
    /\ WF_vars(Select)
    /\ WF_vars(CloseStmt)
    /\ WF_vars(CloseDB)
    /\ WF_vars(Return)

\* ================================================================== claims
FallenAt(T, houseID) == {t \in DOMAIN T : T[t].house_id = houseID /\ T[t].fallen}

\* FellRandomTreeByHouseID of request r returns nil in this step.
StormReturnsNil(r) == req[r].pc = "storm_commit" /\ req'[r].pc = "storm_refetch"

\* The answers the handler gives when FellRandomTreeByHouseID returns an error.
StormErrors == {ErrNoTrees, "server error sending storm"}

\* C1: whenever a storm has read a non-empty candidate list, every member
\* of the list, the last one included, can be the tree the storm goes on
\* to fell; with a single candidate the storm fells it and does not fail.
C1_EveryCandidateCanBeChosen ==
    \A r \in Reqs :
        (Quiet /\ req[r].pc = "storm_fell") =>
            \A i \in 1..Len(req[r].treeIDs) :
                ~LockedByOther(r, req[r].treeIDs[i]) =>
                    ENABLED (/\ StormFell(r)
                             /\ req'[r].pc = "storm_commit"
                             /\ req'[r].treeID = req[r].treeIDs[i])

\* C2: a storm that returns nil changes exactly one row of its house from
\* fallen = false to fallen = true, so the house has one more fallen tree.
C2_StormFellsExactlyOneStandingTree ==
    [][\A r \in Reqs :
        StormReturnsNil(r) =>
            LET houseID == req[r].paramInt
            IN  /\ DOMAIN trees' = DOMAIN trees
                /\ Cardinality(FallenAt(trees', houseID))
                        = Cardinality(FallenAt(trees, houseID)) + 1
                /\ \E t \in TreesAt(houseID) :
                        /\ ~trees[t].fallen
                        /\ trees'[t].fallen
                        /\ \A u \in DOMAIN trees \ {t} : trees'[u] = trees[u]]_vars

\* C3: a storm whose candidate query finds the house without trees (and
\* whose store calls do not fail) returns ErrNoTrees with its transaction
\* rolled back, and no row of either table changes.
C3_StormOnTreelessHouse ==
    [][\A r \in Reqs :
        (/\ req[r].pc = "storm_query"
         /\ req'[r] # req[r]
         /\ ~req'[r].fault
         /\ TreesAt(req[r].paramInt) = {}) =>
            /\ req'[r].pc = "done"
            /\ req'[r].resp.message = ErrNoTrees
            /\ req'[r].tx = "rolledback"
            /\ trees' = trees
            /\ houses' = houses]_vars

\* A storm on a house without trees was answered ErrNoTrees, rolled back.
C3_Witness ==
    \E r \in Reqs :
        /\ req[r].pc = "done"
        /\ req[r].route = "POST /storm"
        /\ req[r].resp.message = ErrNoTrees
        /\ req[r].tx = "rolledback"
        /\ ~req[r].fault
        /\ trees = << >>

\* C4: when FellRandomTreeByHouseID returns an error, the transaction it
\* opened has been rolled back: it is neither open nor committed.
C4_ErrorReturnRollsBack ==
    \A r \in Reqs :
        (/\ req[r].pc = "done"
         /\ req[r].route = "POST /storm"
         /\ req[r].resp.message \in StormErrors) =>
            req[r].tx \in {"none", "rolledback"}

\* C5: a storm whose UPDATE matched no row, because the chosen tree was
\* deleted after the candidate read, is rolled back and returns an error.
C5_VanishedTreeFailsTheStorm ==
    [][\A r \in Reqs :
        (/\ req[r].pc = "storm_commit"
         /\ req'[r] # req[r]
         /\ req[r].treeID \notin DOMAIN trees) =>
            /\ req'[r].pc = "done"
            /\ req'[r].tx = "rolledback"
            /\ req'[r].resp.status # 200]_vars

\* The triple (houseID, x, y) has a row in table T.
TripleTaken(T, houseID, x, y) ==
    \E t \in DOMAIN T :
        T[t].house_id = houseID /\ T[t].x_coord = x /\ T[t].y_coord = y

AbsoluteLocationUnique ==
    \A t, u \in DOMAIN trees :
        (/\ trees[t].house_id = trees[u].house_id
         /\ trees[t].x_coord = trees[u].x_coord
         /\ trees[t].y_coord = trees[u].y_coord) => t = u

\* Table T2 is table T1 with one row more, for the triple (houseID, x, y).
OneRowMore(T1, T2, houseID, x, y) ==
    \E id \in DOMAIN T2 \ DOMAIN T1 :
        /\ DOMAIN T2 = DOMAIN T1 \cup {id}
        /\ T2[id].house_id = houseID /\ T2[id].x_coord = x /\ T2[id].y_coord = y
        /\ \A u \in DOMAIN T1 : T2[u] = T1[u]

\* C6: no two trees share (house, x, y).  An INSERT (whose store calls do
\* not fail) for a triple that has a tree is answered ErrDuplicateTree and
\* changes nothing; for a free triple, at other coordinates of the house or
\* at the same coordinates of another house, it succeeds and adds the row.
C6_OneTreePerLocation ==
    /\ []AbsoluteLocationUnique
    /\ [][\A r \in Reqs :
            (req[r].pc = "add_insert" /\ req'[r] # req[r] /\ ~req'[r].fault) =>
                LET houseID == req[r].paramInt
                    t       == req[r].body
                IN  IF TripleTaken(trees, houseID, t.XCoord, t.YCoord)
                    THEN /\ req'[r].resp.status = 400
                         /\ req'[r].resp.message = ErrDuplicateTree
                         /\ trees' = trees
                         /\ nextID' = nextID
                    ELSE /\ req'[r].resp.status = 200
                         /\ OneRowMore(trees, trees', houseID, t.XCoord, t.YCoord)]_vars

\* A duplicate was refused while the same coordinates are planted at both
\* houses.
C6_Witness ==
    /\ \E r \in Reqs :
        /\ req[r].pc = "done"
        /\ req[r].route = "POST /trees"
        /\ req[r].resp.message = ErrDuplicateTree
    /\ \E t, u \in DOMAIN trees :
        /\ trees[t].house_id # trees[u].house_id
        /\ trees[t].x_coord = trees[u].x_coord
        /\ trees[t].y_coord = trees[u].y_coord

\* C7: a row leaves the tree table only through the DELETE route and only
\* with fallen = true; a DELETE that finds its tree standing is answered
\* 400 and the table stays as it is.
C7_OnlyFallenTreesAreRemoved ==
    [][/\ \A t \in DOMAIN trees \ DOMAIN trees' :
            /\ trees[t].fallen
            /\ \E r \in Reqs : req[r].pc = "rm_delete" /\ req[r].paramInt = t
       /\ \A r \in Reqs :
            (/\ req[r].pc = "rm_fallen"
             /\ req'[r] # req[r]
             /\ ~req'[r].fault
             /\ req[r].paramInt \in DOMAIN trees
             /\ ~trees[req[r].paramInt].fallen) =>
                /\ req'[r].pc = "done"
                /\ req'[r].resp.status = 400
                /\ trees' = trees]_vars

\* A DELETE of a standing tree was refused, after another tree was removed.
C7_Witness ==
    /\ \E r \in Reqs :
        /\ req[r].pc = "done"
        /\ req[r].route = "DELETE /trees"
        /\ req[r].resp.status = 400
        /\ req[r].resp.message = "call us back when the Tree falls"
    /\ Cardinality(DOMAIN trees) < nextID - 1

\* C8: a new row has fallen = false; fallen goes from false to true only
\* in the commit of a storm at the row's house; it never goes back.
C8_FallenIsMonotonic ==
    [][\A t \in DOMAIN trees' :
        IF t \notin DOMAIN trees
        THEN ~trees'[t].fallen
        ELSE /\ trees[t].fallen => trees'[t].fallen
             /\ (~trees[t].fallen /\ trees'[t].fallen) =>
                    \E r \in Reqs :
                        /\ req[r].route = "POST /storm"
                        /\ req[r].paramInt = trees[t].house_id
                        /\ req[r].tx = "open"
                        /\ req'[r].tx = "committed"]_vars

\* A storm has chosen a tree that had fallen already, next to a tree that
\* was planted after it fell.
C8_Witness ==
    \E r \in Reqs :
        /\ req[r].pc = "storm_commit"
        /\ req[r].lockRow # 0
        /\ req[r].rowsAffected = 0
        /\ \E u \in DOMAIN trees : u > req[r].lockRow /\ ~trees[u].fallen

\* C9: the end-to-end sequence is answered as expected at every step.
C9_EndToEndSequence == e2e.stage >= 0

\* C10: a storm picks and updates inside its own open transaction, no two
\* open transactions hold the same row, the tree a committed storm chose
\* is fallen if it still exists, and fallen changes for no tree but the one
\* chosen by the storm that commits.
C10_ConcurrentStorms ==
    /\ [](\A r \in Reqs :
            /\ req[r].pc \in {"storm_fell", "storm_commit"} => req[r].tx = "open"
            /\ (req[r].tx = "committed" /\ req[r].treeID \in DOMAIN trees) =>
                    trees[req[r].treeID].fallen
            /\ \A q \in Reqs \ {r} :
                    (req[r].tx = "open" /\ req[q].tx = "open" /\ req[r].lockRow # 0) =>
                        req[r].lockRow # req[q].lockRow)
    /\ [][\A t \in DOMAIN trees \cap DOMAIN trees' :
            trees'[t].fallen # trees[t].fallen =>
                \E r \in Reqs :
                    /\ req[r].pc = "storm_commit"
                    /\ req[r].treeID = t
                    /\ req'[r].tx = "committed"]_vars

\* Two storms on one house chose the same tree: one has committed, the
\* other holds the row and is about to commit.
C10_Witness ==
    \E r, q \in Reqs :
        /\ r # q
        /\ req[r].route = "POST /storm" /\ req[q].route = "POST /storm"
        /\ req[r].paramInt = req[q].paramInt
        /\ req[r].pc = "storm_refetch" /\ req[r].tx = "committed"
        /\ req[q].pc = "storm_commit" /\ req[q].lockRow = req[r].treeID

\* C11: a DELETE whose store call finds no row for its identifier, whether
\* the tree never existed or another request removed it, is answered 404.
C11_MissingTreeIsNotFound ==
    [][\A r \in Reqs :
        (/\ req[r].pc \in {"rm_fallen", "rm_delete"}
         /\ req'[r] # req[r]
         /\ ~req'[r].fault
         /\ req[r].paramInt \notin DOMAIN trees) =>
            /\ req'[r].pc = "done"
            /\ req'[r].resp.status = 404]_vars

\* C12: a request that has passed the parsing of its path parameter, and so
\* goes on to call the store, has a parameter greater than zero.
C12_StoreCalledOnlyForPositiveParam ==
    \A r \in Reqs : InFlight(r) => req[r].paramInt > 0

\* The steps of the three house routes that come after the existence check.
AfterHouseCheck ==
    {"get_trees", "add_insert", "storm_query", "storm_fell", "storm_commit",
     "storm_refetch"}

\* C13: the existence check of a house route (when the query does not fail)
\* for an identifier that matches no house answers 404 with no transaction
\* opened and no row changed; a request is past the check only for a house
\* that exists.
C13_HouseCheckedFirst ==
    /\ [](\A r \in Reqs : req[r].pc \in AfterHouseCheck => req[r].paramInt \in houses)
    /\ [][\A r \in Reqs :
            (/\ req[r].pc \in {"get_exists", "add_exists", "storm_exists"}
             /\ req'[r] # req[r]
             /\ ~req'[r].fault
             /\ req[r].paramInt \notin houses) =>
                /\ req'[r].pc = "done"
                /\ req'[r].resp.status = 404
                /\ req'[r].tx = "none"
                /\ trees' = trees
                /\ nextID' = nextID
                /\ houses' = houses]_vars

\* A storm for a house that does not exist was answered 404 while a plant
\* for that house is about to be checked and the table holds no tree.
C13_Witness ==
    /\ trees = << >>
    /\ \E r, q \in Reqs :
        /\ req[r].pc = "done" /\ req[r].route = "POST /storm"
        /\ req[r].resp.status = 404 /\ req[r].tx = "none"
        /\ req[q].pc = "add_exists" /\ req[q].paramInt \notin houses

\* C14: a storm that returns ErrNoTrees is answered 404.
C14_NoTreesIsNotFound ==
    \A r \in Reqs :
        (/\ req[r].pc = "done"
         /\ req[r].route = "POST /storm"
         /\ req[r].resp.message = ErrNoTrees) => req[r].resp.status = 404

\* C14, as the handler has it: a storm that returns ErrNoTrees is answered
\* 400, and a storm is answered 404 only when its house does not exist.
C14_NoTreesIsBadRequest ==
    \A r \in Reqs :
        (req[r].pc = "done" /\ req[r].route = "POST /storm") =>
            /\ req[r].resp.message = ErrNoTrees => req[r].resp.status = 400
            /\ req[r].resp.status = 404 => req[r].resp.message = "no House exists with ID"

\* A storm on an existing house without trees was answered ErrNoTrees.
C14_Witness ==
    \E r \in Reqs :
        /\ req[r].pc = "done"
        /\ req[r].route = "POST /storm"
        /\ req[r].resp.message = ErrNoTrees
        /\ req[r].resp.status = 400
        /\ ~req[r].fault

\* C15: the tree in the 200 answer of a POST /trees is the row the INSERT
\* stored: the new identifier, the stored species and coordinates, and
\* the stored fallen flag.
C15_AnswerIsTheStoredRow ==
    [][\A r \in Reqs :
        (/\ req[r].pc = "add_insert"
         /\ req'[r].pc = "done"
         /\ req'[r].resp.status = 200) =>
            LET t == req'[r].resp.body[1]
            IN  /\ t.ID \in DOMAIN trees' \ DOMAIN trees
                /\ t.Species = trees'[t.ID].species
                /\ t.XCoord = trees'[t.ID].x_coord
                /\ t.YCoord = trees'[t.ID].y_coord
                /\ t.Fallen = trees'[t.ID].fallen]_vars

\* A body the field constraints refuse.
OutOfConstraints(body) ==
    \/ body.Species = ""
    \/ body.XCoord < 1 \/ body.XCoord > 255
    \/ body.YCoord < 1 \/ body.YCoord > 255

\* C16: every row has a species and coordinates in 1..255; a POST /trees
\* with a body outside the constraints is answered 400, and reading the
\* body inserts nothing.
C16_RowsAreWithinConstraints ==
    /\ [](\A t \in DOMAIN trees :
            /\ trees[t].species # ""
            /\ trees[t].x_coord \in 1..255
            /\ trees[t].y_coord \in 1..255)
    /\ [](\A r \in Reqs : \A body \in Bodies :
            (req[r].pc = "add_exists" /\ OutOfConstraints(body)) =>
                /\ ValidateTree(req[r], body).pc = "done"
                /\ ValidateTree(req[r], body).resp.status = 400)
    /\ [][\A r \in Reqs :
            (req[r].pc = "add_exists" /\ req'[r] # req[r]) =>
                /\ trees' = trees
                /\ req'[r].pc = "add_insert" => ~OutOfConstraints(req'[r].body)]_vars

\* A tree stands at the largest coordinate while a POST with a coordinate
\* out of range has been refused.
C16_Witness ==
    /\ \E t \in DOMAIN trees : trees[t].y_coord = 255
    /\ \E r \in Reqs :
        /\ req[r].pc = "done"
        /\ req[r].route = "POST /trees"
        /\ req[r].resp.status = 400
        /\ req[r].resp.message = "must specify an x coordinate between 1-255"

\* The list holds the rows of exactly the identifiers in S, each once, in
\* ascending order of identifier.
ExactlyAscending(list, S) ==
    /\ {list[i].ID : i \in 1..Len(list)} = S
    /\ \A i, j \in 1..Len(list) : i < j => list[i].ID < list[j].ID

\* What the handler received from the store, read off its answer: the
\* list it sent, or the empty list it turned into a 404.
ListReturned(resp) == IF resp.status = 404 THEN <<>> ELSE resp.body

\* C17: whenever GetAllHouses or GetTreesByHouseID returns without an
\* error, the list is exactly the houses, or exactly the trees of the
\* house as stored, in ascending order of identifier; without a matching
\* row it is empty, and only then does the handler answer 404.
C17_ListsAreExactAndAscending ==
    [][\A r \in Reqs :
        /\ (/\ req[r].pc = "get_trees"
            /\ req'[r].pc = "done"
            /\ req'[r].resp.status # 500) =>
                LET list == ListReturned(req'[r].resp)
                IN  /\ ExactlyAscending(list, TreesAt(req[r].paramInt))
                    /\ \A i \in 1..Len(list) : list[i] = ScanTree(list[i].ID)
        /\ (/\ req[r].pc = "idle"
            /\ req'[r].pc = "done"
            /\ req'[r].route = "GET /houses"
            /\ req'[r].resp.status # 500) =>
                ExactlyAscending(ListReturned(req'[r].resp), houses)]_vars

\* run() left its select: the process shuts down from serving.
ShutDown == main.cause \in {"signal", "server"}

\* C18: on shutdown every statement and the connection are closed exactly
\* once, the statements before the connection; nothing is closed while a
\* request is being handled, and no request runs a statement that was
\* closed or uses the connection after it was closed.
C18_ReleasedOnceAfterRequests ==
    /\ [](/\ db.closes <= 1
          /\ \A k \in Queries : stmts[k].closes <= 1)
    /\ []((Phase = "closed" /\ ShutDown) =>
            /\ db.closes = 1
            /\ \A k \in Queries : stmts[k].closes = 1)
    /\ []((ShutDown /\ db.closes > 0) => \A k \in Queries : stmts[k].closes = 1)
    /\ [][(stmts' # stmts \/ db' # db) =>
            (Phase = "shutting down" => \A c \in Conns : conn[c].pc # "handling")]_vars
    /\ [][\A c \in Conns :
            (conn[c].pc = "handling" /\ conn'[c] # conn[c] /\ conn'[c].pc # "cut") =>
                /\ stmts[Head(conn[c].calls)].closes = 0
                /\ db.closes = 0]_vars

\* C19: the process leaves the connecting phase in the step of a probe
\* that succeeds, and a probe that fails leaves it connecting.  If the
\* store is never reachable, the process, once connecting, stays connecting
\* unless a signal ends it.  If the store is reachable from some time on,
\* and no signal ends the process and no statement fails to prepare, the
\* process, once connecting, reaches the serving phase.
C19_StartupLoop ==
    /\ [][(Phase = "connecting" /\ main' # main) =>
            IF Phase' = "connecting"
            THEN ~reachable /\ main'.pinged = "failed"
            ELSE (reachable /\ main'.pinged = "ok") \/ main'.cause = "killed"]_vars
    /\ ([]~reachable) =>
            [](Phase = "connecting" => [](Phase = "connecting" \/ main.cause = "killed"))
    /\ (<>[]reachable /\ [](main.cause \notin {"killed", "prepare"})) =>
            [](Phase = "connecting" => <>(Phase = "serving"))

\* The store came up after a probe had failed: the loop is still running.
C19_Witness ==
    /\ Phase = "connecting"
    /\ main.pinged = "failed"
    /\ reachable

PhaseRank(p) ==
    CASE p = "unconfigured" -> 0
      [] p = "connecting" -> 1
      [] p = "serving" -> 2
      [] p = "shutting down" -> 3
      [] p = "closed" -> 4

\* Everything serving needs: the required variables, a probe that
\* succeeded, the open DB and every statement prepared.
ReadyToServe ==
    /\ requiredEnv \subseteq environ
    /\ main.pinged = "ok"
    /\ \A k \in Queries : stmts[k].prepared

\* C20: the phase never goes back; the process is serving, and a request
\* is accepted, only with the required configuration present, a probe
\* succeeded and every statement prepared; serving is left only for
\* shutting down, on a signal received or a server error received; the
\* exit status is 0 exactly when run() returned because of the signal.
C20_PhasesAndExitCode ==
    /\ [][PhaseRank(Phase') >= PhaseRank(Phase)]_vars
    /\ [](Phase = "serving" => (ReadyToServe /\ db.open))
    /\ [](\A c \in Conns : conn[c].pc # "idle" => (ReadyToServe /\ PhaseRank(Phase) >= 2))
    /\ [][(Phase = "serving" /\ Phase' # "serving") =>
            /\ Phase' = "shutting down"
            /\ \/ main'.cause = "signal" /\ shutdown = 1
               \/ main'.cause = "server" /\ serverErrors = 1]_vars
    /\ [](Phase = "closed" =>
            /\ main.exit # Running
            /\ main.exit = 0 <=> main.cause = "signal")

\* The process served without a database name and exited with status 0
\* after a signal.
C20_Witness ==
    /\ Phase = "closed"
    /\ main.cause = "signal"
    /\ main.exit = 0
    /\ "DB_NAME" \notin environ

\* A step of the storm request in slot r: from its arrival to its answer.
StormStep(r) ==
    /\ req'[r] # req[r]
    /\ req[r].route = "POST /storm" \/ req'[r].route = "POST /storm"

\* C21: a storm at house h changes nothing except the fallen flag of one
\* tree of h.  No step of a storm request changes a house row, adds or
\* removes a tree row, or uses up an identifier; a step that changes the
\* tree table is the commit of the request's transaction, it changes one
\* row only, that row belongs to the house of the request, and only its
\* fallen flag changes, to true.
C21_StormFrame ==
    [][\A r \in Reqs : StormStep(r) =>
        /\ houses' = houses
        /\ nextID' = nextID
        /\ DOMAIN trees' = DOMAIN trees
        /\ Cardinality({t \in DOMAIN trees : trees'[t] # trees[t]}) <= 1
        /\ \A t \in DOMAIN trees : trees'[t] # trees[t] =>
                /\ req[r].pc = "storm_commit"
                /\ req'[r].tx = "committed"
                /\ trees[t].house_id = req[r].paramInt
                /\ ~trees[t].fallen
                /\ trees'[t] = [trees[t] EXCEPT !.fallen = TRUE]]_vars

\* A storm has committed the felling of one tree of its house while that
\* house has a second tree, still standing, and another house has a tree,
\* standing too.
C21_Witness ==
    \E r \in Reqs :
        /\ req[r].pc = "storm_refetch"
        /\ req[r].tx = "committed"
        /\ req[r].rowsAffected = 1
        /\ req[r].treeID \in DOMAIN trees
        /\ trees[req[r].treeID].fallen
        /\ trees[req[r].treeID].house_id = req[r].paramInt
        /\ \E u \in DOMAIN trees :
                trees[u].house_id = req[r].paramInt /\ ~trees[u].fallen
        /\ \E u \in DOMAIN trees :
                trees[u].house_id # req[r].paramInt /\ ~trees[u].fallen

\* C22: through the registered routes every tree row references an
\* existing house, and no request changes the set of houses.  A request
\* is about to insert a tree only for a house its check found, and a row
\* that appears in the tree table is the row of such a request, at that
\* house.
C22_HousesFixedTreesReferenceThem ==
    /\ [](\A t \in DOMAIN trees : trees[t].house_id \in houses)
    /\ [][houses' = houses]_vars
    /\ [](\A r \in Reqs : req[r].pc = "add_insert" => req[r].paramInt \in houses)
    /\ [][\A t \in DOMAIN trees' \ DOMAIN trees :
            \E r \in Reqs :
                /\ req[r].pc = "add_insert"
                /\ req[r].paramInt \in houses
                /\ trees'[t].house_id = req[r].paramInt]_vars

\* A POST /houses was turned away by the router while a tree stands at a
\* house and another request is about to plant one.
C22_Witness ==
    \E r, q \in Reqs :
        /\ req[r].pc = "done"
        /\ req[r].route = "POST /houses"
        /\ req[r].resp.status \in {404, 405}
        /\ req[q].pc = "add_insert"
        /\ houses = HouseIDs
        /\ \E t \in DOMAIN trees : trees[t].house_id \in houses
====
